---- MODULE Spec2Model ----
(***************************************************************************)
(* Model of package apitest (backend/library/go-api/apitest/apitest.go):   *)
(* TestSuite.RunHandlerTests, TestSuite.RunHandlerTest, the AssertFuncs    *)
(* and MakeHandlerRequest.                                                 *)
(*                                                                         *)
(* A run is observed through two histories: `calls` holds every request    *)
(* delivered to the HandlerFunc and `log` holds, in program order, every   *)
(* hook call, handler call, assertion and t.Error/t.Errorf of the run.     *)
(***************************************************************************)
EXTENDS Integers, Sequences, FiniteSets, TLC

VARIABLES
    ts,         \* the TestSuite (receiver of RunHandlerTests / RunHandlerTest)
    tests,      \* the []HandlerTest given to RunHandlerTests
    i,          \* number of elements of tests the range loop has taken
    tt,         \* the loop variable / parameter tt of RunHandlerTest
    pc,         \* position in the code
    result,     \* resp, body, err as returned by MakeHandlerRequest
    remaining,  \* keys of tt.AssertContentFields the range loop has not visited
    args,       \* arguments of a direct call of MakeHandlerRequest
    calls,      \* requests delivered to the HandlerFunc, in order
    log         \* hook calls, assertions and reported errors, in order

vars == <<ts, tests, i, tt, pc, result, remaining, args, calls, log>>

(***************************************************************************)
(* Bounds of the model.                                                    *)
(***************************************************************************)
MaxTests == 2      \* longest []HandlerTest given to RunHandlerTests
MaxAccepted == 2   \* longest acceptedStatusCodes given to MakeHandlerRequest

(***************************************************************************)
(* Values.                                                                 *)
(***************************************************************************)
StatusCodes == {200, 404}

BodyNotJSON == "not json"
BodyArray == "[1]"
BodyNull == "null"
BodyNotFound == "{\"code\":404,\"message\":\"not found: widget\"}"
BodyNoMessage == "{\"code\":404,\"message\":\"\"}"
BodyWidget == "{\"id\":\"abc\",\"name\":\"x\"}"

Bodies == {BodyNotJSON, BodyArray, BodyNull, BodyNotFound, BodyNoMessage, BodyWidget}

\* Decoded JSON values (interface{}): nil, string or float64.
JNil == [t |-> "nil", s |-> "", n |-> 0]
JString(s) == [t |-> "string", s |-> s, n |-> 0]
JNumber(n) == [t |-> "float64", s |-> "", n |-> n]

\* error values
NilErr == [kind |-> "nil", route |-> "", code |-> 0, body |-> ""]
UnacceptedErr(route, code, body) ==
    [kind |-> "unaccepted status", route |-> route, code |-> code, body |-> body]


(***************************************************************************)
(* encoding/json as used by RunHandlerTest, on the bodies of the model.    *)
(***************************************************************************)

\* json.Valid(body): the body is syntactically JSON.
ValidJSON(body) == body # BodyNotJSON

\* json.Unmarshal(body, &errH) with errH an api.Error {code, message}:
\* err is set for invalid JSON and for a JSON value that is not an object;
\* a field the body lacks keeps its zero value; null leaves errH untouched.
UnmarshalError(body) ==
    CASE body = BodyNotFound -> [err |-> FALSE, Code |-> 404, Message |-> "not found: widget"]
      [] body = BodyNoMessage -> [err |-> FALSE, Code |-> 404, Message |-> ""]
      [] body = BodyWidget -> [err |-> FALSE, Code |-> 0, Message |-> ""]
      [] body = BodyNull -> [err |-> FALSE, Code |-> 0, Message |-> ""]
      [] OTHER -> [err |-> TRUE, Code |-> 0, Message |-> ""]

\* json.Unmarshal(body, &rJSON) with rJSON a map[string]interface{}: the
\* fields of a JSON object; on an error rJSON keeps no entry; null gives
\* the nil map, which reads like the empty one.
UnmarshalFields(body) ==
    CASE body = BodyNotFound ->
            [err |-> FALSE,
             m |-> [k \in {"code", "message"} |->
                      IF k = "code" THEN JNumber(404) ELSE JString("not found: widget")]]
      [] body = BodyNoMessage ->
            [err |-> FALSE,
             m |-> [k \in {"code", "message"} |->
                      IF k = "code" THEN JNumber(404) ELSE JString("")]]
      [] body = BodyWidget ->
            [err |-> FALSE,
             m |-> [k \in {"id", "name"} |->
                      IF k = "id" THEN JString("abc") ELSE JString("x")]]
      [] body = BodyNull -> [err |-> FALSE, m |-> [k \in {} |-> JNil]]
      [] OTHER -> [err |-> TRUE, m |-> [k \in {} |-> JNil]]

(***************************************************************************)
(* testify/assert as used by the package.                                  *)
(***************************************************************************)

\* strings.Contains(s, sub), behind assert.Contains on two strings
Contains(s, sub) ==
    \E j \in 0..(Len(s) - Len(sub)) : SubSeq(s, j + 1, j + Len(sub)) = sub

\* assert.NotEmpty on a decoded value: nil, "" and 0 are empty
NotEmpty(v) ==
    CASE v.t = "nil" -> FALSE
      [] v.t = "string" -> v.s # ""
      [] OTHER -> v.n # 0

(***************************************************************************)
(* AssertFuncs.  An AssertFunc is a record: fn is the function, expected   *)
(* the value AssertIsEqual captured.  Applying it gives the outcome of its *)
(* assertion.                                                              *)
(***************************************************************************)
AssertNotEmptyFunc == [fn |-> "AssertNotEmptyFunc", expected |-> JNil]

AssertIsEqual(expected) == [fn |-> "AssertIsEqual", expected |-> expected]

ApplyAssertFunc(f, v) ==
    IF f.fn = "AssertIsEqual" THEN f.expected = v ELSE NotEmpty(v)

(***************************************************************************)
(* MakeHandlerRequest.  A HandlerFunc is modelled by what it writes to the *)
(* recorder: [Code, Body].                                                 *)
(***************************************************************************)

\* lines 182-185: the keys of statusMap
StatusMap(acceptedStatusCodes) ==
    {acceptedStatusCodes[j] : j \in 1..Len(acceptedStatusCodes)}

\* the request handed to p.HandlerFunc (lines 165-170)
HandlerCall(p, content) ==
    [handler |-> p.HandlerFunc, method |-> p.Method, route |-> p.Route,
     content |-> content]

\* mutant: the status is checked even when no accepted code is given
MakeHandlerRequest_NoLenGuard(p, content, acceptedStatusCodes) ==
    LET wCode == p.HandlerFunc.Code
        body == p.HandlerFunc.Body
        resp == [StatusCode |-> wCode]
    IN  IF wCode \notin StatusMap(acceptedStatusCodes)
        THEN [resp |-> resp, body |-> body, err |-> UnacceptedErr(p.Route, wCode, body)]
        ELSE [resp |-> resp, body |-> body, err |-> NilErr]

\* mutant: on an unaccepted status only the error is returned
MakeHandlerRequest_WithholdResult(p, content, acceptedStatusCodes) ==
    LET wCode == p.HandlerFunc.Code
        body == p.HandlerFunc.Body
        resp == [StatusCode |-> wCode]
    IN  IF Len(acceptedStatusCodes) > 0 /\ wCode \notin StatusMap(acceptedStatusCodes)
        THEN [resp |-> [StatusCode |-> 0], body |-> "",
              err |-> UnacceptedErr(p.Route, wCode, body)]
        ELSE [resp |-> resp, body |-> body, err |-> NilErr]

\* the values returned (lines 172-191); reading a recorder's body cannot fail
MakeHandlerRequest(p, content, acceptedStatusCodes) ==
    LET wCode == p.HandlerFunc.Code
        body == p.HandlerFunc.Body
        resp == [StatusCode |-> wCode]
    IN  IF Len(acceptedStatusCodes) > 0 /\ wCode \notin StatusMap(acceptedStatusCodes)
        THEN [resp |-> resp, body |-> body, err |-> UnacceptedErr(p.Route, wCode, body)]
        ELSE [resp |-> resp, body |-> body, err |-> NilErr]


(***************************************************************************)
(* TestSuite and HandlerTest values.  A func field holds TRUE when the     *)
(* function is set (non-nil).  AssertContentFields is nil or a set of      *)
(* <<key, AssertFunc>> entries.                                            *)
(***************************************************************************)
HandlerFuncs == [Code : StatusCodes, Body : Bodies]

TestSuites ==
    [Route : {"/widgets"}, Method : {"POST"}, HandlerFunc : HandlerFuncs,
     AfterTestFunc : BOOLEAN, BeforeTestFunc : BOOLEAN]

NilFields == [nil |-> TRUE, m |-> {}]
FieldsOf(entries) == [nil |-> FALSE, m |-> entries]

FieldMaps ==
    { NilFields,
      FieldsOf({}),
      FieldsOf({<<"id", AssertNotEmptyFunc>>, <<"name", AssertIsEqual(JString("x"))>>}),
      FieldsOf({<<"missing_field", AssertNotEmptyFunc>>, <<"id", AssertNotEmptyFunc>>}) }

HandlerTests ==
    [Name : {"case"}, Content : {"{}"},
     WantStatusCode : StatusCodes,
     WantContent : {"", BodyWidget},
     WantErr : BOOLEAN,
     WantErrMessage : {"", "not found"},
     AssertContentFields : FieldMaps,
     BeforeRunFunc : BOOLEAN, AfterRunFunc : BOOLEAN,
     SkipBeforeTestFunc : BOOLEAN, SkipAfterTestFunc : BOOLEAN]

\* the zero HandlerTest
NoTest ==
    [Name |-> "", Content |-> "", WantStatusCode |-> 0, WantContent |-> "",
     WantErr |-> FALSE, WantErrMessage |-> "", AssertContentFields |-> NilFields,
     BeforeRunFunc |-> FALSE, AfterRunFunc |-> FALSE,
     SkipBeforeTestFunc |-> FALSE, SkipAfterTestFunc |-> FALSE]

\* the cases given to a suite of several tests
Created ==
    [NoTest EXCEPT !.Name = "created", !.Content = "{\"name\":\"x\"}",
                   !.WantStatusCode = 200,
                   !.AssertContentFields =
                       FieldsOf({<<"id", AssertNotEmptyFunc>>,
                                 <<"name", AssertIsEqual(JString("x"))>>}),
                   !.BeforeRunFunc = TRUE]
NotFound ==
    [NoTest EXCEPT !.Name = "not found", !.Content = "{\"id\":\"zzz\"}",
                   !.WantStatusCode = 404, !.WantErr = TRUE,
                   !.WantErrMessage = "not found",
                   !.AfterRunFunc = TRUE, !.SkipBeforeTestFunc = TRUE]
Plain ==
    [NoTest EXCEPT !.Name = "plain", !.Content = "",
                   !.WantStatusCode = 200, !.WantContent = BodyWidget,
                   !.SkipAfterTestFunc = TRUE]

SuiteTests == {Created, NotFound, Plain}

SuiteHandlerFuncs ==
    { [Code |-> 200, Body |-> BodyWidget],
      [Code |-> 404, Body |-> BodyNotFound],
      [Code |-> 200, Body |-> BodyNotJSON] }

SeqsUpTo(S, n) == UNION { [1..k -> S] : k \in 0..n }

NoResult == [resp |-> [StatusCode |-> 0], body |-> "", err |-> NilErr]
NoArgs == [content |-> "", acceptedStatusCodes |-> <<>>]

Keys(fields) == { e[1] : e \in fields.m }
FuncOf(fields, k) == (CHOOSE e \in fields.m : e[1] = k)[2]

(***************************************************************************)
(* Initial states: a suite run over several tests (Init), a suite run over *)
(* one test of any shape (InitCase), a direct caller of MakeHandlerRequest *)
(* (InitReq).                                                              *)
(***************************************************************************)
InitLocals ==
    /\ i = 0
    /\ tt = NoTest
    /\ result = NoResult
    /\ remaining = {}
    /\ args = NoArgs
    /\ calls = <<>>
    /\ log = <<>>

Init ==
    /\ ts \in {s \in TestSuites : s.HandlerFunc \in SuiteHandlerFuncs}
    /\ tests \in SeqsUpTo(SuiteTests, MaxTests)
    /\ pc = "range"
    /\ InitLocals

InitCase ==
    /\ ts \in TestSuites
    /\ tests \in {<<c>> : c \in HandlerTests}
    /\ pc = "range"
    /\ InitLocals

InitReq ==
    /\ ts \in {s \in TestSuites : ~s.BeforeTestFunc /\ ~s.AfterTestFunc}
    /\ tests = <<>>
    /\ pc = "caller"
    /\ InitLocals


(***************************************************************************)
(* The log.                                                                *)
(***************************************************************************)
Ev(ev, arg, ok) == [run |-> i, ev |-> ev, arg |-> arg, ok |-> ok]

When(cond, e) == IF cond THEN <<e>> ELSE <<>>

\* HandlerReqParams built at lines 66-70
Hreq(suite) ==
    [Route |-> suite.Route, Method |-> suite.Method, HandlerFunc |-> suite.HandlerFunc]

\* mutant: a decode failure of the error shape is not reported
ErrChecks_SilentDecode(t, body) ==
    IF t.WantErrMessage # "" \/ t.WantErr
    THEN LET errH == UnmarshalError(body)
         IN  <<Ev("assert.Equal", "errH.Code", errH.err \/ t.WantStatusCode = errH.Code)>>
             \o When(t.WantErr /\ ~errH.err,
                     Ev("assert.NotEmpty", "errH.Message", NotEmpty(JString(errH.Message))))
             \o When(t.WantErrMessage # "" /\ ~errH.err,
                     Ev("assert.Contains", "errH.Message",
                        Contains(errH.Message, t.WantErrMessage)))
    ELSE <<>>

\* lines 81-97: the checks of the error shape
ErrChecks(t, body) ==
    IF t.WantErrMessage # "" \/ t.WantErr
    THEN LET errH == UnmarshalError(body)
         IN  When(errH.err, Ev("t.Error", "errH", FALSE))
             \o <<Ev("assert.Equal", "errH.Code", t.WantStatusCode = errH.Code)>>
             \o When(t.WantErr,
                     Ev("assert.NotEmpty", "errH.Message", NotEmpty(JString(errH.Message))))
             \o When(t.WantErrMessage # "",
                     Ev("assert.Contains", "errH.Message",
                        Contains(errH.Message, t.WantErrMessage)))
    ELSE <<>>

\* lines 109-113: one iteration of the loop over tt.AssertContentFields
FieldChecks(t, body, k) ==
    LET rJSON == UnmarshalFields(body).m
        exists == k \in DOMAIN rJSON
        v == IF exists THEN rJSON[k] ELSE JNil
    IN  When(~exists, Ev("t.Errorf", k, FALSE))
        \o <<Ev("assertFunc", k, ApplyAssertFunc(FuncOf(t.AssertContentFields, k), v))>>

(***************************************************************************)
(* RunHandlerTests (lines 45-51).                                          *)
(***************************************************************************)

\* mutant: every sub-test runs the last test of the slice
RangeNext_LastTest ==
    /\ pc = "range"
    /\ i < Len(tests)
    /\ i' = i + 1
    /\ tt' = tests[Len(tests)]
    /\ log' = Append(log, [run |-> i + 1, ev |-> "t.Run", arg |-> tt'.Name, ok |-> TRUE])
    /\ pc' = "BeforeTestFunc"
    /\ UNCHANGED <<ts, tests, result, remaining, args, calls>>

\* the range loop takes the next test and t.Run starts its sub-test
RangeNext ==
    /\ pc = "range"
    /\ i < Len(tests)
    /\ i' = i + 1
    /\ tt' = tests[i + 1]
    /\ log' = Append(log, [run |-> i + 1, ev |-> "t.Run", arg |-> tt'.Name, ok |-> TRUE])
    /\ pc' = "BeforeTestFunc"
    /\ UNCHANGED <<ts, tests, result, remaining, args, calls>>

\* the range loop is over
RangeDone ==
    /\ pc = "range"
    /\ i = Len(tests)
    /\ pc' = "done"
    /\ UNCHANGED <<ts, tests, i, tt, result, remaining, args, calls, log>>

(***************************************************************************)
(* RunHandlerTest (lines 54-126).                                          *)
(***************************************************************************)

\* lines 57-59
RunBeforeTestFunc ==
    /\ pc = "BeforeTestFunc"
    /\ log' = log \o When(ts.BeforeTestFunc /\ ~tt.SkipBeforeTestFunc,
                          Ev("BeforeTestFunc", tt.Name, TRUE))
    /\ pc' = "BeforeRunFunc"
    /\ UNCHANGED <<ts, tests, i, tt, result, remaining, args, calls>>

\* lines 61-63
RunBeforeRunFunc ==
    /\ pc = "BeforeRunFunc"
    /\ log' = log \o When(tt.BeforeRunFunc, Ev("BeforeRunFunc", tt.Name, TRUE))
    /\ pc' = "Request"
    /\ UNCHANGED <<ts, tests, i, tt, result, remaining, args, calls>>

\* mutant: an error of MakeHandlerRequest ends the sub-test (require.NoError)
Request_FatalOnError ==
    /\ pc = "Request"
    /\ LET r == MakeHandlerRequest(Hreq(ts), tt.Content, <<tt.WantStatusCode>>)
       IN  /\ result' = r
           /\ calls' = Append(calls, HandlerCall(Hreq(ts), tt.Content))
           /\ log' = log \o <<Ev("HandlerFunc", tt.Content, TRUE),
                              Ev("assert.NoError", "err", r.err = NilErr)>>
           /\ pc' = IF r.err = NilErr THEN "VerifyStatus" ELSE "range"
    /\ UNCHANGED <<ts, tests, i, tt, remaining, args>>

\* lines 66-72
Request ==
    /\ pc = "Request"
    /\ LET r == MakeHandlerRequest(Hreq(ts), tt.Content, <<tt.WantStatusCode>>)
       IN  /\ result' = r
           /\ calls' = Append(calls, HandlerCall(Hreq(ts), tt.Content))
           /\ log' = log \o <<Ev("HandlerFunc", tt.Content, TRUE),
                              Ev("assert.NoError", "err", r.err = NilErr)>>
    /\ pc' = "VerifyStatus"
    /\ UNCHANGED <<ts, tests, i, tt, remaining, args>>

\* line 75
VerifyStatus ==
    /\ pc = "VerifyStatus"
    /\ log' = Append(log, Ev("assert.Equal", "resp.StatusCode",
                             tt.WantStatusCode = result.resp.StatusCode))
    /\ pc' = "VerifyContent"
    /\ UNCHANGED <<ts, tests, i, tt, result, remaining, args, calls>>

\* mutant: the raw body is compared whatever WantContent is
VerifyContent_Always ==
    /\ pc = "VerifyContent"
    /\ log' = Append(log, Ev("assert.Equal", "body", tt.WantContent = result.body))
    /\ pc' = "VerifyErr"
    /\ UNCHANGED <<ts, tests, i, tt, result, remaining, args, calls>>

\* lines 77-79
VerifyContent ==
    /\ pc = "VerifyContent"
    /\ log' = log \o When(tt.WantContent # "",
                          Ev("assert.Equal", "body", tt.WantContent = result.body))
    /\ pc' = "VerifyErr"
    /\ UNCHANGED <<ts, tests, i, tt, result, remaining, args, calls>>

\* lines 81-97
VerifyErr ==
    /\ pc = "VerifyErr"
    /\ log' = log \o ErrChecks(tt, result.body)
    /\ pc' = "VerifyFields"
    /\ UNCHANGED <<ts, tests, i, tt, result, remaining, args, calls>>

\* mutant: the body is decoded whether or not the map is nil
VerifyFields_NoNilGuard ==
    /\ pc = "VerifyFields"
    /\ log' = log \o When(UnmarshalFields(result.body).err, Ev("t.Error", "rJSON", FALSE))
    /\ remaining' = Keys(tt.AssertContentFields)
    /\ pc' = "FieldLoop"
    /\ UNCHANGED <<ts, tests, i, tt, result, args, calls>>

\* lines 100-106: the body is decoded when the map is not nil
VerifyFields ==
    /\ pc = "VerifyFields"
    /\ IF ~tt.AssertContentFields.nil
       THEN /\ log' = log \o When(UnmarshalFields(result.body).err,
                                  Ev("t.Error", "rJSON", FALSE))
            /\ remaining' = Keys(tt.AssertContentFields)
            /\ pc' = "FieldLoop"
       ELSE /\ pc' = "AfterRunFunc"
            /\ UNCHANGED <<log, remaining>>
    /\ UNCHANGED <<ts, tests, i, tt, result, args, calls>>

\* lines 108-114: one iteration; a Go map is ranged over in any order
AssertField(k) ==
    /\ pc = "FieldLoop"
    /\ k \in remaining
    /\ log' = log \o FieldChecks(tt, result.body, k)
    /\ remaining' = remaining \ {k}
    /\ UNCHANGED <<ts, tests, i, tt, pc, result, args, calls>>

\* line 114-115: the loop over the map is over
FieldLoopDone ==
    /\ pc = "FieldLoop"
    /\ remaining = {}
    /\ pc' = "AfterRunFunc"
    /\ UNCHANGED <<ts, tests, i, tt, result, remaining, args, calls, log>>

\* lines 118-120
RunAfterRunFunc ==
    /\ pc = "AfterRunFunc"
    /\ log' = log \o When(tt.AfterRunFunc, Ev("AfterRunFunc", tt.Name, TRUE))
    /\ pc' = "AfterTestFunc"
    /\ UNCHANGED <<ts, tests, i, tt, result, remaining, args, calls>>

\* mutant: the suite's after-hook ignores SkipAfterTestFunc
RunAfterTestFunc_IgnoreSkip ==
    /\ pc = "AfterTestFunc"
    /\ log' = log \o When(ts.AfterTestFunc, Ev("AfterTestFunc", tt.Name, TRUE))
    /\ pc' = "range"
    /\ UNCHANGED <<ts, tests, i, tt, result, remaining, args, calls>>

\* lines 122-126: the sub-test returns to the range loop
RunAfterTestFunc ==
    /\ pc = "AfterTestFunc"
    /\ log' = log \o When(ts.AfterTestFunc /\ ~tt.SkipAfterTestFunc,
                          Ev("AfterTestFunc", tt.Name, TRUE))
    /\ pc' = "range"
    /\ UNCHANGED <<ts, tests, i, tt, result, remaining, args, calls>>

(***************************************************************************)
(* A direct call of MakeHandlerRequest (lines 163-192).                    *)
(***************************************************************************)
CallMakeHandlerRequest(content, acceptedStatusCodes) ==
    /\ pc = "caller"
    /\ args' = [content |-> content, acceptedStatusCodes |-> acceptedStatusCodes]
    /\ result' = MakeHandlerRequest(Hreq(ts), content, acceptedStatusCodes)
    /\ calls' = Append(calls, HandlerCall(Hreq(ts), content))
    /\ pc' = "called"
    /\ UNCHANGED <<ts, tests, i, tt, remaining, log>>

(***************************************************************************)
(* Specifications.                                                         *)
(***************************************************************************)
Next ==
    \/ RangeNext
    \/ RangeDone
    \/ RunBeforeTestFunc
    \/ RunBeforeRunFunc
    \/ Request
    \/ VerifyStatus
    \/ VerifyContent
    \/ VerifyErr
    \/ VerifyFields
    \/ \E k \in {"id", "name", "missing_field"} : AssertField(k)
    \/ FieldLoopDone
    \/ RunAfterRunFunc
    \/ RunAfterTestFunc

NextReq ==
    \E content \in {"", "{}"}, acceptedStatusCodes \in SeqsUpTo(StatusCodes \cup {201}, MaxAccepted) :
        CallMakeHandlerRequest(content, acceptedStatusCodes)

Spec == Init /\ [][Next]_vars

SpecCase == InitCase /\ [][Next]_vars

SpecReq == InitReq /\ [][NextReq]_vars


(***************************************************************************)
(* Reading the histories.                                                  *)
(***************************************************************************)
LogIdx(r) == {j \in 1..Len(log) : log[j].run = r}

\* the run of tests[r] has returned to the range loop
Returned(r) == r < i \/ (r = i /\ pc \in {"range", "done"})

HasEv(r, ev) == \E j \in LogIdx(r) : log[j].ev = ev
Logged(r, ev, arg) == \E j \in LogIdx(r) : log[j].ev = ev /\ log[j].arg = arg
LoggedOk(r, ev, arg, ok) ==
    \E j \in LogIdx(r) : log[j].ev = ev /\ log[j].arg = arg /\ log[j].ok = ok
Count(r, ev) == Cardinality({j \in LogIdx(r) : log[j].ev = ev})

\* t.Failed() of the sub-test of tests[r]
Failed(r) == \E j \in LogIdx(r) : ~log[j].ok

\* what the handler of the suite wrote
ActualCode == ts.HandlerFunc.Code
ActualBody == ts.HandlerFunc.Body

\* the place of an event in the run: 4 is a validation check
Phase(e) ==
    CASE e.ev = "t.Run" -> 0
      [] e.ev = "BeforeTestFunc" -> 1
      [] e.ev = "BeforeRunFunc" -> 2
      [] e.ev = "HandlerFunc" -> 3
      [] e.ev = "AfterRunFunc" -> 5
      [] e.ev = "AfterTestFunc" -> 6
      [] OTHER -> 4

(***************************************************************************)
(* C1.  One run of RunHandlerTest produces, in this order and each at most *)
(* once: the suite before-hook (iff set and not skipped by the case), the  *)
(* case before-hook (iff set), exactly one handler invocation, the         *)
(* validation checks, the case after-hook (iff set), the suite after-hook  *)
(* (iff set and not skipped); whether or not a check fails.                *)
(***************************************************************************)
C1_HookSequence ==
    \A r \in 1..i :
        /\ \A a, b \in LogIdx(r) :
              a < b => /\ Phase(log[a]) <= Phase(log[b])
                       /\ Phase(log[a]) = Phase(log[b]) => Phase(log[a]) = 4
        /\ Returned(r) =>
              /\ HasEv(r, "BeforeTestFunc") <=>
                    (ts.BeforeTestFunc /\ ~tests[r].SkipBeforeTestFunc)
              /\ HasEv(r, "BeforeRunFunc") <=> tests[r].BeforeRunFunc
              /\ Count(r, "HandlerFunc") = 1
              /\ Logged(r, "assert.NoError", "err")
              /\ Logged(r, "assert.Equal", "resp.StatusCode")
              /\ HasEv(r, "AfterRunFunc") <=> tests[r].AfterRunFunc
              /\ HasEv(r, "AfterTestFunc") <=>
                    (ts.AfterTestFunc /\ ~tests[r].SkipAfterTestFunc)

\* a returned run with all four hooks called around a failing check
C1_Witness ==
    /\ pc = "done" /\ i = 1
    /\ HasEv(1, "BeforeTestFunc") /\ HasEv(1, "BeforeRunFunc")
    /\ HasEv(1, "AfterRunFunc") /\ HasEv(1, "AfterTestFunc")
    /\ LoggedOk(1, "assert.Equal", "resp.StatusCode", FALSE)

(***************************************************************************)
(* C2.  MakeHandlerRequest with no accepted status code returns no error,  *)
(* whatever status the handler produced.                                   *)
(***************************************************************************)
C2_EmptyAcceptedNoError ==
    (pc = "called" /\ Len(args.acceptedStatusCodes) = 0) => result.err = NilErr

C2_Witness ==
    /\ pc = "called"
    /\ Len(args.acceptedStatusCodes) = 0
    /\ result.resp.StatusCode = 404
    /\ result.err = NilErr

(***************************************************************************)
(* C3.  MakeHandlerRequest with accepted status codes returns the          *)
(* unaccepted-status error (carrying route, status and body) exactly when  *)
(* the handler's status is none of them, and returns the handler's         *)
(* response and body in both outcomes.                                     *)
(***************************************************************************)
C3_UnacceptedIffNotMember ==
    (pc = "called" /\ Len(args.acceptedStatusCodes) > 0) =>
        /\ result.err # NilErr <=>
              ~(\E j \in 1..Len(args.acceptedStatusCodes) :
                    args.acceptedStatusCodes[j] = ActualCode)
        /\ result.err # NilErr =>
              result.err = UnacceptedErr(ts.Route, ActualCode, ActualBody)
        /\ result.resp.StatusCode = ActualCode
        /\ result.body = ActualBody

C3_Witness ==
    /\ pc = "called"
    /\ args.acceptedStatusCodes = <<200, 201>>
    /\ result.err.kind = "unaccepted status"
    /\ result.resp.StatusCode = 404
    /\ result.body = BodyNotFound

(***************************************************************************)
(* C4.  A case with WantContent = "" never has its raw body compared, so   *)
(* no body-equality failure is reported whatever the handler returned.     *)
(***************************************************************************)
C4_EmptyWantContentSkipsBody ==
    \A r \in 1..i :
        tests[r].WantContent = "" => ~Logged(r, "assert.Equal", "body")

C4_Witness ==
    /\ pc = "done" /\ i = 1
    /\ tests[1].WantContent = ""
    /\ result.body = BodyNotFound
    /\ ~Failed(1)


\* the decoded fields of what the handler wrote
ActualFields == UnmarshalFields(ActualBody).m

(***************************************************************************)
(* C5.  The assertion function of a configured field is invoked only if    *)
(* the field is present in the decoded body; for an absent field the       *)
(* missing-field failure is reported and the function is not invoked.      *)
(***************************************************************************)
C5_AbsentFieldNotAsserted ==
    \A r \in 1..i :
        \A k \in Keys(tests[r].AssertContentFields) :
            /\ Logged(r, "assertFunc", k) => k \in DOMAIN ActualFields
            /\ (Returned(r) /\ k \notin DOMAIN ActualFields) =>
                  /\ LoggedOk(r, "t.Errorf", k, FALSE)
                  /\ ~Logged(r, "assertFunc", k)

(***************************************************************************)
(* C6.  A case with WantErr whose response body is not JSON reports the    *)
(* decode failure, is marked failed, and its "message is not empty" check  *)
(* does not pass.                                                          *)
(***************************************************************************)
C6_DecodeFailureReported ==
    \A r \in 1..i :
        (Returned(r) /\ tests[r].WantErr /\ ~ValidJSON(ActualBody)) =>
            /\ LoggedOk(r, "t.Error", "errH", FALSE)
            /\ Failed(r)
            /\ ~LoggedOk(r, "assert.NotEmpty", "errH.Message", TRUE)

C6_Witness ==
    /\ pc = "done" /\ i = 1
    /\ tests[1].WantErr
    /\ result.body = BodyNotJSON
    /\ result.resp.StatusCode = tests[1].WantStatusCode
    /\ Logged(1, "t.Error", "errH")

(***************************************************************************)
(* C7.  No failure suppresses a later check: in a returned run every       *)
(* configured check has been evaluated with its own outcome, whatever      *)
(* failed before it: the harness error, the status, the raw body, the      *)
(* error shape, and for each configured field either its missing-field     *)
(* failure or its assertion function.                                      *)
(***************************************************************************)
C7_NoFailureSuppressesLaterChecks ==
    \A r \in 1..i :
        Returned(r) =>
            LET t == tests[r]
                errH == UnmarshalError(ActualBody)
                f == t.AssertContentFields
            IN  /\ LoggedOk(r, "assert.NoError", "err", t.WantStatusCode = ActualCode)
                /\ LoggedOk(r, "assert.Equal", "resp.StatusCode",
                            t.WantStatusCode = ActualCode)
                /\ t.WantContent # "" =>
                      LoggedOk(r, "assert.Equal", "body", t.WantContent = ActualBody)
                /\ ((t.WantErr \/ t.WantErrMessage # "") /\ errH.err) =>
                      LoggedOk(r, "t.Error", "errH", FALSE)
                /\ ((t.WantErr \/ t.WantErrMessage # "") /\ ~errH.err) =>
                      LoggedOk(r, "assert.Equal", "errH.Code",
                               t.WantStatusCode = errH.Code)
                /\ (t.WantErr /\ ~errH.err) =>
                      LoggedOk(r, "assert.NotEmpty", "errH.Message", errH.Message # "")
                /\ (t.WantErrMessage # "" /\ ~errH.err) =>
                      LoggedOk(r, "assert.Contains", "errH.Message",
                               Contains(errH.Message, t.WantErrMessage))
                /\ (~f.nil /\ UnmarshalFields(ActualBody).err) =>
                      LoggedOk(r, "t.Error", "rJSON", FALSE)
                /\ (~f.nil /\ ~UnmarshalFields(ActualBody).err) =>
                      \A k \in Keys(f) :
                          IF k \in DOMAIN ActualFields
                          THEN LoggedOk(r, "assertFunc", k,
                                        ApplyAssertFunc(FuncOf(f, k), ActualFields[k]))
                          ELSE LoggedOk(r, "t.Errorf", k, FALSE)

\* harness error, status failure, error-shape failure and a missing field,
\* and still the sibling field's assertion function has run
C7_Witness ==
    /\ pc = "done" /\ i = 1
    /\ LoggedOk(1, "assert.NoError", "err", FALSE)
    /\ LoggedOk(1, "assert.Equal", "resp.StatusCode", FALSE)
    /\ LoggedOk(1, "assert.Equal", "errH.Code", FALSE)
    /\ LoggedOk(1, "t.Errorf", "missing_field", FALSE)
    /\ LoggedOk(1, "assertFunc", "id", TRUE)

(***************************************************************************)
(* C8.  RunHandlerTests runs the tests in the order given: one run per     *)
(* test, the r-th run with the r-th test (name, body, expectations, hooks) *)
(* and the suite's route, method and handler, and a run has returned       *)
(* before the next one starts.                                             *)
(***************************************************************************)
C8_TestsRunInOrder ==
    /\ i <= Len(tests)
    /\ pc = "done" => i = Len(tests) /\ Len(calls) = Len(tests)
    /\ i > 0 => tt = tests[i]
    /\ \A a, b \in 1..Len(log) : a < b => log[a].run <= log[b].run
    /\ \A r \in 1..i :
          /\ Count(r, "t.Run") = 1
          /\ Logged(r, "t.Run", tests[r].Name)
          /\ r < i => Returned(r)
    /\ Len(calls) <= i
    /\ \A r \in 1..Len(calls) :
          calls[r] = [handler |-> ts.HandlerFunc, method |-> ts.Method,
                      route |-> ts.Route, content |-> tests[r].Content]
    /\ \A r \in 1..i :
          Returned(r) =>
              /\ Len(calls) >= r
              /\ Logged(r, "HandlerFunc", tests[r].Content)
              /\ HasEv(r, "BeforeRunFunc") <=> tests[r].BeforeRunFunc
              /\ HasEv(r, "AfterRunFunc") <=> tests[r].AfterRunFunc
              /\ LoggedOk(r, "assert.Equal", "resp.StatusCode",
                          tests[r].WantStatusCode = ActualCode)
              /\ Logged(r, "assert.Equal", "body") <=> tests[r].WantContent # ""

C8_Witness ==
    /\ pc = "done"
    /\ Len(tests) = 2
    /\ tests[1] = NotFound /\ tests[2] = Created
    /\ Len(calls) = 2
    /\ calls[1].content = NotFound.Content /\ calls[2].content = Created.Content

(***************************************************************************)
(* C9.  A JSON decode failure ends its validation branch: after an error-  *)
(* shape decode failure none of the code, non-empty and substring checks   *)
(* is evaluated, and after a field-map decode failure no field is looked   *)
(* up and no assertion function is invoked.                                *)
(***************************************************************************)
C9_DecodeFailureStopsBranch ==
    \A r \in 1..i :
        /\ Logged(r, "t.Error", "errH") =>
              /\ ~Logged(r, "assert.Equal", "errH.Code")
              /\ ~Logged(r, "assert.NotEmpty", "errH.Message")
              /\ ~Logged(r, "assert.Contains", "errH.Message")
        /\ Logged(r, "t.Error", "rJSON") =>
              /\ ~HasEv(r, "t.Errorf")
              /\ ~HasEv(r, "assertFunc")

(***************************************************************************)
(* C10 as stated.  A case whose AssertContentFields has no entry (nil or   *)
(* empty) never has its body decoded as a field map: no field-map decode   *)
(* failure and no field assertion is reported.                             *)
(***************************************************************************)
C10_NoEntriesNoDecode ==
    \A r \in 1..i :
        Keys(tests[r].AssertContentFields) = {} =>
            /\ ~Logged(r, "t.Error", "rJSON")
            /\ ~HasEv(r, "t.Errorf")
            /\ ~HasEv(r, "assertFunc")

(***************************************************************************)
(* C10 amended.  The field-assertion check is triggered by a non-nil       *)
(* AssertContentFields: with a nil mapping the body is not decoded as a    *)
(* field map and no field-map failure is reported, whatever the body; with *)
(* a present but empty mapping no field is looked up, but the body is      *)
(* decoded and a decode failure is reported exactly when it is no JSON     *)
(* object (or null).                                                       *)
(***************************************************************************)
C10_NilFieldsNoDecode ==
    \A r \in 1..i :
        LET f == tests[r].AssertContentFields
        IN  /\ f.nil =>
                  /\ ~Logged(r, "t.Error", "rJSON")
                  /\ ~HasEv(r, "t.Errorf")
                  /\ ~HasEv(r, "assertFunc")
            /\ (~f.nil /\ f.m = {}) =>
                  /\ ~HasEv(r, "t.Errorf")
                  /\ ~HasEv(r, "assertFunc")
                  /\ Returned(r) =>
                        (Logged(r, "t.Error", "rJSON") <=> UnmarshalFields(ActualBody).err)

C10_Witness ==
    /\ pc = "done" /\ i = 1
    /\ tests[1].AssertContentFields.nil
    /\ result.body = BodyNotJSON
    /\ ~Logged(1, "t.Error", "rJSON")

====
